---- MODULE Spec2Model ----
(***************************************************************************)
(* Model of event-rs (src/src/lib.rs): Event<TEventArgs>, a list of boxed  *)
(* handlers kept in a slab::Slab.  The Slab is modelled by its fields      *)
(* (entries, len, next) and the four operations Event calls on it:         *)
(* insert, try_remove, clear and iter.                                     *)
(*                                                                         *)
(* Every closure passed to add is moved into the Event, so each add call   *)
(* stores a handler of its own; handlers are named 1, 2, 3, ... in the     *)
(* order of the add calls.  0 stands for "no handler" (Option::None).      *)
(***************************************************************************)
EXTENDS Integers, Sequences, FiniteSets

\* Bounds of the model.
MaxAdds == 4        \* add calls in one run
MaxInvokes == 2     \* returning invokes counted between two mutating calls

None == 0
\* Handles a caller may pass to remove: every index add can return, and one
\* index past them, which is always out of range.
Handles == 0..MaxAdds

VARIABLES
    handlers,       \* Event.handlers: the Slab [entries, len, next]
    last,           \* the latest call on the Event and what it returned
    handleOf,       \* handleOf[i]: the handle the i-th add call returned
    issued,         \* handle -> handler of the latest add that returned it,
                    \*   None once remove(handle) or clear() was called since
    removed,        \* handlers for which remove returned true
    dropped,        \* handlers vacated by the latest clear()
    fresh,          \* handlers whose add allocated a new slot
    removedNoAdd,   \* handles whose remove returned true, no add since
    clearedNoAdd,   \* clear() was called and no add since
    returned,       \* invokes that returned since the last add/remove/clear
    counter,        \* handler calls those invokes made
    prevCalls,      \* the calls of the latest of those invokes, in order
    vacated,        \* handles vacated by remove since creation or the last
                    \*   clear and not returned by add since, oldest first
    slotsSeen,      \* handles add returned since creation or the last clear
    alive,          \* the Event has not been dropped
    drops,          \* drops[x]: how often handler x was dropped
    shadow,         \* an Event created new at the first clear(), and given
                    \*   the calls made since
    shadowRes,      \* what the latest of those calls returned on shadow
    beforeAdd,      \* after add, and after the remove that undoes it: the
                    \*   (handle, handler) pairs stored before the add
    undone,         \* the latest call was remove(h), right after the add
                    \*   that returned h
    peak            \* largest number of handlers registered at the same
                    \*   time since creation or the last clear

vars == <<handlers, last, handleOf, issued, removed, dropped, fresh,
          removedNoAdd, clearedNoAdd, returned, counter, prevCalls, vacated,
          slotsSeen, alive, drops, shadow, shadowRes, beforeAdd, undone, peak>>

----------------------------------------------------------------------------
\* slab::Slab, as used by Event.

\* enum Entry<T> { Vacant(usize), Occupied(T) }
Occupied(val) == [occ |-> TRUE, val |-> val]
Vacant(nxt) == [occ |-> FALSE, val |-> nxt]

\* Slab::new(): no entries, len 0, next 0.
SlabNew == [entries |-> <<>>, len |-> 0, next |-> 0]

\* Variant of insert_at that never follows the free-list link: next is
\* always one past the key just filled.
SlabInsertAtNoLink(s, key, val) ==
    IF key = Len(s.entries)
    THEN [entries |-> Append(s.entries, Occupied(val)),
          len |-> s.len + 1,
          next |-> key + 1]
    ELSE [entries |-> [s.entries EXCEPT ![key + 1] = Occupied(val)],
          len |-> s.len + 1,
          next |-> key + 1]

\* Slab::insert_at(key, val): push when key is one past the end, else
\* take the vacant entry at key and follow its link.  Key k is entries[k+1].
SlabInsertAt(s, key, val) ==
    IF key = Len(s.entries)
    THEN [entries |-> Append(s.entries, Occupied(val)),
          len |-> s.len + 1,
          next |-> key + 1]
    ELSE [entries |-> [s.entries EXCEPT ![key + 1] = Occupied(val)],
          len |-> s.len + 1,
          next |-> s.entries[key + 1].val]

\* Variant of insert that returns the number of stored values as the key.
SlabInsertLenKey(s, val) == [slab |-> SlabInsertAt(s, s.next, val), key |-> s.len]

\* Slab::insert(val): key = self.next; insert_at(key, val); key
SlabInsert(s, val) == [slab |-> SlabInsertAt(s, s.next, val), key |-> s.next]

\* Variant of try_remove that hands out the value and leaves it stored.
SlabTryRemoveKeep(s, key) ==
    IF key < Len(s.entries) /\ s.entries[key + 1].occ
    THEN [slab |-> s, val |-> s.entries[key + 1].val]
    ELSE [slab |-> s, val |-> None]

\* Variant of try_remove that does not put a vacant entry back.
SlabTryRemoveNoRestore(s, key) ==
    IF key < Len(s.entries)
    THEN LET prev == s.entries[key + 1]
             swapped == [s.entries EXCEPT ![key + 1] = Vacant(s.next)]
         IN  IF prev.occ
             THEN [slab |-> [entries |-> swapped, len |-> s.len - 1, next |-> key],
                   val |-> prev.val]
             ELSE [slab |-> [s EXCEPT !.entries = swapped], val |-> None]
    ELSE [slab |-> s, val |-> None]

\* Variant of try_remove that takes the entry out of the vector, as
\* Vec::remove does, so that the entries behind it move down by one.
SlabTryRemoveShift(s, key) ==
    IF key < Len(s.entries) /\ s.entries[key + 1].occ
    THEN [slab |-> [entries |-> SubSeq(s.entries, 1, key)
                                \o SubSeq(s.entries, key + 2, Len(s.entries)),
                    len |-> s.len - 1,
                    next |-> Len(s.entries) - 1],
          val |-> s.entries[key + 1].val]
    ELSE [slab |-> s, val |-> None]

\* Variant of try_remove that does not make the vacated entry the head of
\* the free list.
SlabTryRemoveLeak(s, key) ==
    IF key < Len(s.entries) /\ s.entries[key + 1].occ
    THEN [slab |-> [entries |-> [s.entries EXCEPT ![key + 1] = Vacant(s.next)],
                    len |-> s.len - 1,
                    next |-> s.next],
          val |-> s.entries[key + 1].val]
    ELSE [slab |-> s, val |-> None]

\* Slab::try_remove(key): swap Vacant(self.next) into the entry; an
\* occupied entry gives up its value, a vacant one is put back.
SlabTryRemove(s, key) ==
    IF key < Len(s.entries)
    THEN LET prev == s.entries[key + 1]
             swapped == [s.entries EXCEPT ![key + 1] = Vacant(s.next)]
         IN  IF prev.occ
             THEN [slab |-> [entries |-> swapped, len |-> s.len - 1, next |-> key],
                   val |-> prev.val]
             ELSE [slab |-> [s EXCEPT !.entries = [swapped EXCEPT ![key + 1] = prev]],
                   val |-> None]
    ELSE [slab |-> s, val |-> None]

\* Variant of clear that resets the counters and keeps the entries.
SlabClearCountersOnly(s) == [entries |-> s.entries, len |-> 0, next |-> 0]

\* Slab::clear(): entries.clear(); len = 0; next = 0.
SlabClear(s) == [entries |-> <<>>, len |-> 0, next |-> 0]

\* Slab::iter(): the occupied entries, front to back.
OccupiedKeys(s) == {k \in 0..(Len(s.entries) - 1) : s.entries[k + 1].occ}
StoredIds(s) == {s.entries[k + 1].val : k \in OccupiedKeys(s)}

----------------------------------------------------------------------------
\* Event

\* Variant of the loop that returns after the first handler it calls.
RunHandlersFirstOnly(s, i, bad, log) ==
    LET ks == {k \in i..Len(s.entries) : s.entries[k].occ}
    IN  IF ks = {}
        THEN [calls |-> log, panicked |-> FALSE]
        ELSE LET k == CHOOSE x \in ks : \A y \in ks : x <= y
             IN  [calls |-> Append(log, s.entries[k].val),
                  panicked |-> s.entries[k].val \in bad]

\* Variant of the loop that walks the entries back to front.
RECURSIVE RunHandlersBackwards(_, _, _, _)
RunHandlersBackwards(s, i, bad, log) ==
    IF i > Len(s.entries)
    THEN [calls |-> log, panicked |-> FALSE]
    ELSE LET e == s.entries[Len(s.entries) + 1 - i]
         IN  IF e.occ
             THEN IF e.val \in bad
                  THEN [calls |-> Append(log, e.val), panicked |-> TRUE]
                  ELSE RunHandlersBackwards(s, i + 1, bad, Append(log, e.val))
             ELSE RunHandlersBackwards(s, i + 1, bad, log)

\* Variant of the loop that catches a handler's panic, goes on with the
\* next handler and reports the panic at the end.
RECURSIVE RunHandlersCatching(_, _, _, _)
RunHandlersCatching(s, i, bad, log) ==
    IF i > Len(s.entries)
    THEN [calls |-> log, panicked |-> \E j \in 1..Len(log) : log[j] \in bad]
    ELSE IF s.entries[i].occ
         THEN RunHandlersCatching(s, i + 1, bad, Append(log, s.entries[i].val))
         ELSE RunHandlersCatching(s, i + 1, bad, log)

\* The loop of Event::invoke from entry i on: call each occupied entry's
\* handler in turn; a handler in bad panics, which unwinds out of invoke.
RECURSIVE RunHandlers(_, _, _, _)
RunHandlers(s, i, bad, log) ==
    IF i > Len(s.entries)
    THEN [calls |-> log, panicked |-> FALSE]
    ELSE IF s.entries[i].occ
         THEN IF s.entries[i].val \in bad
              THEN [calls |-> Append(log, s.entries[i].val), panicked |-> TRUE]
              ELSE RunHandlers(s, i + 1, bad, Append(log, s.entries[i].val))
         ELSE RunHandlers(s, i + 1, bad, log)

\* The statement handler(arg) of the loop: a synchronous call, which has
\* returned when the loop goes on, and which does not return when the
\* handler panics.  The events of an invoke that made the calls in log.
HandlerEvents(log, panicked) ==
    [k \in 1..(2 * Len(log) - (IF panicked THEN 1 ELSE 0)) |->
        IF k % 2 = 1 THEN [ev |-> "call", id |-> log[(k + 1) \div 2]]
                     ELSE [ev |-> "return", id |-> log[k \div 2]]]

\* Slab::iter() yields (key, value) for the occupied entries.
StoredPairs(s) == {<<k, s.entries[k + 1].val>> : k \in OccupiedKeys(s)}

NoCall == [op |-> "new", handle |-> 0, id |-> None, ret |-> FALSE,
           calls |-> <<>>, panicked |-> FALSE, bad |-> {}, events |-> <<>>]

\* What a call returned, for the comparison with a newly created Event.
Result(call) == [handle |-> call.handle, ret |-> call.ret,
                 calls |-> call.calls, panicked |-> call.panicked]

ShadowOff == [on |-> FALSE, slab |-> SlabNew]

Max(a, b) == IF a >= b THEN a ELSE b

\* Event::new()
Init ==
    /\ handlers = SlabNew
    /\ last = NoCall
    /\ handleOf = <<>>
    /\ issued = [h \in Handles |-> None]
    /\ removed = {}
    /\ dropped = {}
    /\ fresh = {}
    /\ removedNoAdd = {}
    /\ clearedNoAdd = FALSE
    /\ returned = 0
    /\ counter = 0
    /\ prevCalls = <<>>
    /\ vacated = <<>>
    /\ slotsSeen = {}
    /\ alive = TRUE
    /\ drops = [x \in 1..MaxAdds |-> 0]
    /\ shadow = ShadowOff
    /\ shadowRes = Result(NoCall)
    /\ beforeAdd = {}
    /\ undone = FALSE
    /\ peak = 0

\* Event::add(handler) -> usize
Add ==
    /\ alive
    /\ Len(handleOf) < MaxAdds
    /\ LET id == Len(handleOf) + 1
           r == SlabInsert(handlers, id)
           sr == SlabInsert(shadow.slab, id)
       IN  /\ handlers' = r.slab
           /\ last' = [NoCall EXCEPT !.op = "add", !.handle = r.key, !.id = id]
           /\ handleOf' = Append(handleOf, r.key)
           /\ issued' = [issued EXCEPT ![r.key] = id]
           /\ fresh' = IF r.key = Len(handlers.entries) THEN fresh \cup {id} ELSE fresh
           /\ vacated' = SelectSeq(vacated, LAMBDA x : x # r.key)
           /\ slotsSeen' = slotsSeen \cup {r.key}
           /\ shadow' = IF shadow.on THEN [shadow EXCEPT !.slab = sr.slab] ELSE shadow
           /\ shadowRes' = IF shadow.on
                           THEN [Result(NoCall) EXCEPT !.handle = sr.key]
                           ELSE shadowRes
    /\ removedNoAdd' = {}
    /\ clearedNoAdd' = FALSE
    /\ returned' = 0
    /\ counter' = 0
    /\ prevCalls' = <<>>
    /\ beforeAdd' = StoredPairs(handlers)
    /\ undone' = FALSE
    /\ peak' = Max(peak, Cardinality({issued'[h] : h \in Handles} \ {None}))
    /\ UNCHANGED <<removed, dropped, alive, drops>>

\* Event::remove(handle) -> bool.  The Option that try_remove returns is a
\* temporary of the statement: the handler in it is dropped there.
Remove ==
    /\ alive
    /\ \E handle \in Handles :
        LET r == SlabTryRemove(handlers, handle)
            sr == SlabTryRemove(shadow.slab, handle)
        IN  /\ handlers' = r.slab
            /\ last' = [NoCall EXCEPT !.op = "remove", !.handle = handle,
                                      !.id = r.val, !.ret = (r.val # None)]
            /\ issued' = [issued EXCEPT ![handle] = None]
            /\ removed' = IF r.val # None THEN removed \cup {r.val} ELSE removed
            /\ removedNoAdd' = IF r.val # None THEN removedNoAdd \cup {handle}
                                               ELSE removedNoAdd
            /\ vacated' = IF r.val # None THEN Append(vacated, handle) ELSE vacated
            /\ drops' = IF r.val # None THEN [drops EXCEPT ![r.val] = @ + 1] ELSE drops
            /\ shadow' = IF shadow.on THEN [shadow EXCEPT !.slab = sr.slab] ELSE shadow
            /\ shadowRes' = IF shadow.on
                            THEN [Result(NoCall) EXCEPT !.handle = handle,
                                                        !.ret = (sr.val # None)]
                            ELSE shadowRes
            /\ returned' = 0
            /\ counter' = 0
            /\ prevCalls' = <<>>
            /\ beforeAdd' = IF last.op = "add" /\ last.handle = handle
                            THEN beforeAdd ELSE {}
            /\ undone' = (last.op = "add" /\ last.handle = handle)
            /\ UNCHANGED <<handleOf, dropped, fresh, clearedNoAdd, slotsSeen,
                           alive, peak>>

\* Event::clear().  Vec::clear drops every entry, and with it the handler
\* of every occupied one.  From the first clear on, a newly created Event
\* (shadow) is given the same calls.
Clear ==
    /\ alive
    /\ handlers' = SlabClear(handlers)
    /\ last' = [NoCall EXCEPT !.op = "clear"]
    /\ issued' = [h \in Handles |-> None]
    /\ dropped' = StoredIds(handlers)
    /\ drops' = [x \in 1..MaxAdds |->
                    IF x \in StoredIds(handlers) THEN drops[x] + 1 ELSE drops[x]]
    /\ shadow' = IF shadow.on THEN [shadow EXCEPT !.slab = SlabClear(shadow.slab)]
                              ELSE [on |-> TRUE, slab |-> SlabNew]
    /\ shadowRes' = Result(NoCall)
    /\ clearedNoAdd' = TRUE
    /\ returned' = 0
    /\ counter' = 0
    /\ prevCalls' = <<>>
    /\ vacated' = <<>>
    /\ slotsSeen' = {}
    /\ beforeAdd' = {}
    /\ undone' = FALSE
    /\ peak' = 0
    /\ UNCHANGED <<handleOf, removed, fresh, removedNoAdd, alive>>

\* Variant of invoke that takes the handlers out of the slab to call them.
InvokeDraining ==
    /\ alive
    /\ returned < MaxInvokes
    /\ \E bad \in SUBSET StoredIds(handlers) :
        LET r == RunHandlers(handlers, 1, bad, <<>>)
            sr == RunHandlers(shadow.slab, 1, bad, <<>>)
        IN  /\ last' = [NoCall EXCEPT !.op = "invoke", !.calls = r.calls,
                                      !.panicked = r.panicked, !.bad = bad,
                                      !.events = HandlerEvents(r.calls, r.panicked)]
            /\ returned' = IF r.panicked THEN returned ELSE returned + 1
            /\ counter' = IF r.panicked THEN counter ELSE counter + Len(r.calls)
            /\ prevCalls' = IF r.panicked THEN prevCalls ELSE r.calls
            /\ shadowRes' = IF shadow.on
                            THEN [Result(NoCall) EXCEPT !.calls = sr.calls,
                                                        !.panicked = sr.panicked]
                            ELSE shadowRes
    /\ handlers' = SlabClear(handlers)
    /\ beforeAdd' = {}
    /\ undone' = FALSE
    /\ UNCHANGED <<handleOf, issued, removed, dropped, fresh,
                   removedNoAdd, clearedNoAdd, vacated, slotsSeen, alive, drops,
                   shadow, peak>>

\* Event::invoke(arg); bad is the set of stored handlers that panic on arg.
Invoke ==
    /\ alive
    /\ returned < MaxInvokes
    /\ \E bad \in SUBSET StoredIds(handlers) :
        LET r == RunHandlers(handlers, 1, bad, <<>>)
            sr == RunHandlers(shadow.slab, 1, bad, <<>>)
        IN  /\ last' = [NoCall EXCEPT !.op = "invoke", !.calls = r.calls,
                                      !.panicked = r.panicked, !.bad = bad,
                                      !.events = HandlerEvents(r.calls, r.panicked)]
            /\ returned' = IF r.panicked THEN returned ELSE returned + 1
            /\ counter' = IF r.panicked THEN counter ELSE counter + Len(r.calls)
            /\ prevCalls' = IF r.panicked THEN prevCalls ELSE r.calls
            /\ shadowRes' = IF shadow.on
                            THEN [Result(NoCall) EXCEPT !.calls = sr.calls,
                                                        !.panicked = sr.panicked]
                            ELSE shadowRes
    /\ beforeAdd' = {}
    /\ undone' = FALSE
    /\ UNCHANGED <<handlers, handleOf, issued, removed, dropped, fresh,
                   removedNoAdd, clearedNoAdd, vacated, slotsSeen, alive, drops,
                   shadow, peak>>

\* The owner drops the Event: the Slab's Vec drops its entries, and with
\* them the handler of every occupied one.  No call can follow.
Drop ==
    /\ alive
    /\ alive' = FALSE
    /\ handlers' = SlabNew
    /\ last' = [NoCall EXCEPT !.op = "drop"]
    /\ drops' = [x \in 1..MaxAdds |->
                    IF x \in StoredIds(handlers) THEN drops[x] + 1 ELSE drops[x]]
    /\ issued' = [h \in Handles |-> None]
    /\ shadow' = ShadowOff
    /\ shadowRes' = Result(NoCall)
    /\ removedNoAdd' = {}
    /\ clearedNoAdd' = FALSE
    /\ returned' = 0
    /\ counter' = 0
    /\ prevCalls' = <<>>
    /\ vacated' = <<>>
    /\ slotsSeen' = {}
    /\ beforeAdd' = {}
    /\ undone' = FALSE
    /\ peak' = 0
    /\ UNCHANGED <<handleOf, removed, dropped, fresh>>

Next == Add \/ Remove \/ Clear \/ Invoke \/ Drop

Spec == Init /\ [][Next]_vars

----------------------------------------------------------------------------
\* What a caller of the Event can tell from the calls it made.

Range(f) == {f[i] : i \in DOMAIN f}
NoRepeats(f) == \A i, j \in DOMAIN f : i # j => f[i] # f[j]

\* The handlers that are registered: added, and neither removed through the
\* handle their add returned nor cleared since.
Registered == {issued[h] : h \in Handles} \ {None}

\* The add calls that returned handle h.
AddsReturning(h) == {y \in 1..Len(handleOf) : handleOf[y] = h}

----------------------------------------------------------------------------
\* C1: an invoke that returns has called every registered handler (added and
\* not since removed or cleared) exactly once and no other handler; k such
\* invokes over n registered handlers have made n*k handler calls.
C1_InvokeCallsEachRegisteredOnce ==
    /\ (last.op = "invoke" /\ ~last.panicked) =>
            /\ Range(last.calls) = Registered
            /\ NoRepeats(last.calls)
    /\ counter = Cardinality(Registered) * returned

\* Two invokes over two registered handlers, after an earlier remove, have
\* made four calls.
C1_Witness ==
    /\ last.op = "invoke"
    /\ returned = 2
    /\ counter = 4
    /\ removed # {}

\* C2 as stated: whenever remove(h) removes a handler, every add call that
\* returned h is the add call that stored that handler.
C2_RemoveOnlyOwnHandler ==
    (last.op = "remove" /\ last.ret) =>
        \A y \in AddsReturning(last.handle) : y = last.id

\* C2 amended: remove(h) removes the handler stored by the latest add call
\* that returned h, and never the handler of an add that returned another
\* handle or of an earlier add that returned h.
C2_RemoveLatestOwner ==
    (last.op = "remove" /\ last.ret) =>
        /\ last.id \in AddsReturning(last.handle)
        /\ \A y \in AddsReturning(last.handle) : y <= last.id

\* A remove through a handle that two add calls returned.
C2_Witness ==
    /\ last.op = "remove"
    /\ last.ret
    /\ Cardinality(AddsReturning(last.handle)) >= 2

C4_RemoveOccupied ==
    [][\A h \in Handles :
         (last'.op = "remove" /\ last'.handle = h /\ h \in OccupiedKeys(handlers)) =>
            /\ last'.ret
            /\ last'.id = handlers.entries[h + 1].val
            /\ OccupiedKeys(handlers') = OccupiedKeys(handlers) \ {h}
            /\ \A k \in OccupiedKeys(handlers') :
                    handlers'.entries[k + 1] = handlers.entries[k + 1]
            /\ Len(handlers'.entries) = Len(handlers.entries)]_vars

\* A remove that returned true with a handler left behind it in the slab.
C4_Witness ==
    /\ last.op = "remove"
    /\ last.ret
    /\ \E k \in OccupiedKeys(handlers) : k > last.handle

\* C5: remove(h) on a handle that is out of range or whose slot is vacant
\* returns false and leaves the slab as it was: the same handlers under the
\* same handles, and the same handle for the next add.
C5_RemoveVacantNoOp ==
    [][\A h \in Handles :
         (last'.op = "remove" /\ last'.handle = h /\ h \notin OccupiedKeys(handlers)) =>
            /\ ~last'.ret
            /\ handlers' = handlers
            /\ SlabInsert(handlers', None).key = SlabInsert(handlers, None).key]_vars

\* A remove that returned false on a vacant slot inside the slab that is
\* not the head of the free list, with a handler still stored.
C5_Witness ==
    /\ last.op = "remove"
    /\ ~last.ret
    /\ last.handle < Len(handlers.entries)
    /\ handlers.len >= 1
    /\ handlers.next # last.handle

\* C6: for a handle h returned by add and not cleared since, the first
\* remove(h) returns true and removes the handler of that add; a second
\* remove(h) with no add in between returns false and removes nothing.
C6_RemoveTwice ==
    [][\A h \in Handles :
         (last'.op = "remove" /\ last'.handle = h) =>
            /\ issued[h] # None => (last'.ret /\ last'.id = issued[h])
            /\ h \in removedNoAdd =>
                    (~last'.ret /\ last'.id = None /\ handlers' = handlers)]_vars

\* The second remove of a handle, right after the first one returned true.
C6_Witness ==
    /\ last.op = "remove"
    /\ ~last.ret
    /\ last.handle \in removedNoAdd
    /\ handlers.len >= 1

\* C7: once remove has returned true for a handler, no later invoke calls
\* it, whatever calls were made in between.
C7_RemovedNeverCalled ==
    last.op = "invoke" => Range(last.calls) \cap removed = {}

\* An invoke that calls a handler stored under the handle of a removed one.
C7_Witness ==
    /\ last.op = "invoke"
    /\ \E x \in Range(last.calls) : \E y \in removed : handleOf[x] = handleOf[y]

\* C8: an invoke made after clear() and before any new add calls no handler.
C8_ClearThenInvokeCallsNone ==
    (last.op = "invoke" /\ clearedNoAdd) => last.calls = <<>>

\* An invoke after a clear that vacated two handlers, a remove before it.
C8_Witness ==
    /\ last.op = "invoke"
    /\ clearedNoAdd
    /\ Cardinality(dropped) >= 2
    /\ removed # {}

\* C9: add never returns a handle whose slot is occupied; a handle returned
\* by add refers to the handler of that add until remove of that handle or
\* clear; so distinct registered handlers have distinct handles.
C9_HandlesDistinct ==
    [][/\ last'.op = "add" => last'.handle \notin OccupiedKeys(handlers)
       /\ \A h \in Handles :
            issued'[h] # None =>
                /\ h \in OccupiedKeys(handlers')
                /\ handlers'.entries[h + 1].val = issued'[h]
       /\ Cardinality(Registered') = Cardinality(OccupiedKeys(handlers'))]_vars

\* An add that reused the handle of a removed handler, next to another
\* registered handler.
C9_Witness ==
    /\ last.op = "add"
    /\ \E y \in removed : handleOf[y] = last.handle
    /\ Cardinality(Registered) >= 2

\* C10: when a handler panics during invoke, the invoke ends there: the
\* handlers before it in iteration order were each called once, the
\* panicking handler is the last one called, and no handler behind it in
\* iteration order was called.
C10_PanicAbortsInvoke ==
    last.op = "invoke" =>
        /\ last.panicked <=> (last.bad \cap StoredIds(handlers) # {})
        /\ last.panicked =>
            \E f \in OccupiedKeys(handlers) :
                /\ handlers.entries[f + 1].val \in last.bad
                /\ \A k \in OccupiedKeys(handlers) :
                        k < f => handlers.entries[k + 1].val \notin last.bad
                /\ Range(last.calls) =
                        {handlers.entries[k + 1].val :
                            k \in {x \in OccupiedKeys(handlers) : x <= f}}
                /\ NoRepeats(last.calls)
                /\ last.calls[Len(last.calls)] = handlers.entries[f + 1].val

\* A panic in the second of three handlers.
C10_Witness ==
    /\ last.op = "invoke"
    /\ last.panicked
    /\ Len(last.calls) = 2
    /\ handlers.len = 3

\* C11: invoke calls the registered handlers in ascending order of their
\* handles, one at a time: each call is followed by that handler's return
\* before the next call; an invoke that returns after another one, with no
\* add, remove or clear between them, makes the same calls in the same order.
C11_InvokeSlotOrderStable ==
    [][last'.op = "invoke" =>
        /\ \A i, j \in DOMAIN last'.calls :
                i < j => handleOf[last'.calls[i]] < handleOf[last'.calls[j]]
        /\ \A i \in DOMAIN last'.calls :
                /\ last'.calls[i] \in Registered
                /\ issued[handleOf[last'.calls[i]]] = last'.calls[i]
        /\ \A k \in DOMAIN last'.events :
                /\ last'.events[k].ev = (IF k % 2 = 1 THEN "call" ELSE "return")
                /\ last'.events[k].id = last'.calls[(k + 1) \div 2]
        /\ ~last'.panicked => Len(last'.events) = 2 * Len(last'.calls)
        /\ (~last'.panicked /\ returned >= 1) => last'.calls = prevCalls]_vars

\* A second returning invoke over two handlers of which the one added later
\* has the smaller handle.
C11_Witness ==
    /\ last.op = "invoke"
    /\ ~last.panicked
    /\ returned = 2
    /\ Len(last.calls) = 2
    /\ last.calls[1] > last.calls[2]

\* C12: slot reuse is last in, first out: when some slot vacated by remove
\* since creation or the last clear has not been reused, add returns the
\* most recently vacated of them; otherwise add returns a new index, the
\* number of slots allocated so far (0 on a new Event).
C12_AddReusesLastVacated ==
    [][last'.op = "add" =>
        IF vacated # <<>>
        THEN last'.handle = vacated[Len(vacated)]
        ELSE last'.handle = Cardinality(slotsSeen)]_vars

\* An add that returned the older of two vacated slots, the newer one
\* having been reused before it.
C12_Witness ==
    /\ last.op = "add"
    /\ vacated = <<>>
    /\ Len(handleOf) >= 4
    /\ handleOf[Len(handleOf)] < handleOf[Len(handleOf) - 1]
    /\ Cardinality(removed) >= 2

\* C13: after clear(), and for as long as no add has been called, remove
\* returns false for every handle an add returned before the clear; remove
\* returns true only for a handle that an add has returned since the clear.
C13_StaleHandlesAfterClear ==
    [][last'.op = "remove" =>
        /\ clearedNoAdd => ~last'.ret
        /\ last'.ret => last'.handle \in slotsSeen]_vars

\* A remove that returned false after a clear, through the handle of a
\* handler that the clear vacated.
C13_Witness ==
    /\ last.op = "remove"
    /\ ~last.ret
    /\ clearedNoAdd
    /\ \E x \in dropped : handleOf[x] = last.handle

\* C14: every handler passed to add is dropped once, by the remove that
\* vacates its slot, by clear or by the drop of the Event: a registered
\* handler has not been dropped, no handler is dropped twice, a handler
\* that is no longer registered has been dropped, and after the drop of the
\* Event every handler has been dropped.
C14_DroppedExactlyOnce ==
    [][/\ \A x \in 1..Len(handleOf') :
            /\ drops'[x] <= 1
            /\ x \in Registered' => drops'[x] = 0
            /\ x \notin Registered' => drops'[x] = 1
            /\ ~alive' => drops'[x] = 1
       /\ \A x \in 1..Len(handleOf) :
            drops'[x] # drops[x] =>
                \/ last'.op = "remove" /\ last'.ret /\ last'.id = x
                                       /\ issued[last'.handle] = x
                \/ last'.op = "clear" /\ x \in Registered
                \/ last'.op = "drop" /\ x \in Registered]_vars

\* The Event dropped with a handler registered, after a remove and a clear
\* have dropped others.
C14_Witness ==
    /\ ~alive
    /\ removed # {}
    /\ dropped # {}
    /\ \E x \in 1..Len(handleOf) : x \notin removed /\ x \notin dropped

\* The free list of a slab: the keys reached from next through the links
\* of the vacant entries, up to the first key that is past the end or
\* occupied; fuel bounds the walk.
RECURSIVE FreeListFrom(_, _, _)
FreeListFrom(s, k, fuel) ==
    IF k >= Len(s.entries) \/ fuel = 0
    THEN <<>>
    ELSE IF s.entries[k + 1].occ
         THEN <<k>>
         ELSE <<k>> \o FreeListFrom(s, s.entries[k + 1].val, fuel - 1)

FreeList(s) == FreeListFrom(s, s.next, Len(s.entries) + 1)

\* C15: invoke leaves the registry as it was, whether it returns or a
\* handler panics: the same handlers under the same handles, the same
\* handle for the next add; over zero handlers it calls nothing.
C15_InvokeReadsOnly ==
    [][last'.op = "invoke" =>
        /\ handlers' = handlers
        /\ StoredPairs(handlers') = StoredPairs(handlers)
        /\ SlabInsert(handlers', None).key = SlabInsert(handlers, None).key
        /\ Registered' = Registered
        /\ Registered = {} => (last'.calls = <<>> /\ ~last'.panicked)]_vars

\* An invoke that a panic ended, over two or more handlers and a vacated
\* slot.
C15_Witness ==
    /\ last.op = "invoke"
    /\ last.panicked
    /\ handlers.len >= 2
    /\ vacated # <<>>

\* C16: after clear() the Event answers every later call as an Event
\* created new at that clear and given the same calls does: add returns the
\* same handle (0 for the first add), remove the same result, and invoke
\* calls the same handlers in the same order.
C16_ClearedEqualsNew ==
    [][/\ shadow'.on =>
            /\ shadowRes' = Result(last')
            /\ StoredPairs(shadow'.slab) = StoredPairs(handlers')
       /\ (clearedNoAdd /\ last'.op = "add") => last'.handle = 0
       /\ last'.op = "clear" => shadow'.on]_vars

\* After a clear that vacated handlers: an invoke over two handlers added
\* since, the later one into a slot that a remove had vacated.
C16_Witness ==
    /\ shadow.on
    /\ dropped # {}
    /\ last.op = "invoke"
    /\ Len(last.calls) = 2
    /\ last.calls[1] > last.calls[2]

\* C17: remove(h) right after the add that returned h returns true and
\* leaves the handlers registered before the add under their handles, and
\* the next add returns h again.
C17_AddThenRemoveRestores ==
    [][(last.op = "add" /\ last'.op = "remove" /\ last'.handle = last.handle) =>
        /\ last'.ret
        /\ last'.id = last.id
        /\ StoredPairs(handlers') = beforeAdd
        /\ Registered' = {p[2] : p \in beforeAdd}
        /\ SlabInsert(handlers', None).key = last.handle]_vars

\* An add into a reused slot undone by remove, another handler registered.
C17_Witness ==
    /\ undone
    /\ last.ret
    /\ Cardinality(AddsReturning(last.handle)) >= 2
    /\ beforeAdd # {}
    /\ StoredPairs(handlers) = beforeAdd

\* C18: the slab holds the slots 0..N-1, N being the largest number of
\* handlers registered at the same time since creation or the last clear;
\* every slot is occupied or once on the free list, not both; every handle
\* add returns is below N.
C18_SlotsAreZeroToPeak ==
    /\ Len(handlers.entries) = peak
    /\ handlers.len = Cardinality(OccupiedKeys(handlers))
    /\ Cardinality(Registered) = handlers.len
    /\ NoRepeats(FreeList(handlers))
    /\ Range(FreeList(handlers)) = (0..(peak - 1)) \ OccupiedKeys(handlers)
    /\ slotsSeen = 0..(peak - 1)
    /\ last.op = "add" => last.handle < peak

\* Three slots of which two are on the free list, the lower one first.
C18_Witness ==
    /\ peak = 3
    /\ handlers.len = 1
    /\ Len(FreeList(handlers)) = 2
    /\ FreeList(handlers)[1] < FreeList(handlers)[2]

====
